---------------------------- MODULE Spec2Model ----------------------------
(* A model of generate_map.py: the QRZ logbook fetch, the ADIF decoder     *)
(* parse_adif, the Maidenhead resolver maidenhead_to_latlon, the duplicate *)
(* jitter add_jitter_to_duplicates and the batch run main().               *)
(*                                                                         *)
(* A Python str is a sequence of one-character strings, a dict is a        *)
(* function from keys to values (the empty dict is << >>), and an optional *)
(* value (None, NaN) is << >> against <<v>>.                                *)
EXTENDS Integers, Sequences, FiniteSets, TLC

VARIABLES
    pc,              \* where the run (or the function under study) stands
    api_key,         \* QRZ_API_KEY from the environment, << >> when unset
    response,        \* what requests.get will answer
    network_calls,   \* number of requests.get calls made
    adif_data,       \* text handed to parse_adif (<<v>>), << >> for None
    parts,           \* parse_adif: adif_data.split('<')
    part_idx,        \* parse_adif: index of the next part of the loop
    current_record,  \* parse_adif: the record being filled
    records,         \* parse_adif: the records closed so far
    df,              \* the DataFrame: a sequence of rows
    columns,         \* the ADIF columns of df
    grid,            \* argument of maidenhead_to_latlon
    latlon,          \* result of maidenhead_to_latlon
    file_written,    \* output/index.html was written
    exit_code        \* process exit status, << >> while running

vars == <<pc, api_key, response, network_calls, adif_data, parts, part_idx,
          current_record, records, df, columns, grid, latlon, file_written,
          exit_code>>

-----------------------------------------------------------------------------
(* Bounds of the model. *)

MaxParseTokens == 4
MaxRunTokens == 4
MaxGridLen == 8
MaxRows == 4

-----------------------------------------------------------------------------
(* Python str primitives. *)

None == << >>

UpperLetters ==
    <<"A","B","C","D","E","F","G","H","I","J","K","L","M",
      "N","O","P","Q","R","S","T","U","V","W","X","Y","Z">>

LowerLetters ==
    <<"a","b","c","d","e","f","g","h","i","j","k","l","m",
      "n","o","p","q","r","s","t","u","v","w","x","y","z">>

Digits == <<"0","1","2","3","4","5","6","7","8","9">>

Whitespace == {" ", "\t", "\n", "\r"}

IndexIn(seq, c) == CHOOSE i \in 1..Len(seq) : seq[i] = c

IsIn(seq, c) == \E i \in 1..Len(seq) : seq[i] = c

\* ord(c)
Ord(c) ==
    IF IsIn(Digits, c) THEN 47 + IndexIn(Digits, c)
    ELSE IF IsIn(UpperLetters, c) THEN 64 + IndexIn(UpperLetters, c)
    ELSE IF IsIn(LowerLetters, c) THEN 96 + IndexIn(LowerLetters, c)
    ELSE CASE c = " " -> 32
           [] c = "+" -> 43
           [] c = "-" -> 45
           [] c = ":" -> 58
           [] c = "<" -> 60
           [] c = "=" -> 61
           [] c = ">" -> 62
           [] c = "\t" -> 9
           [] c = "\n" -> 10
           [] c = "\r" -> 13

UpperChar(c) == IF IsIn(LowerLetters, c) THEN UpperLetters[IndexIn(LowerLetters, c)] ELSE c

LowerChar(c) == IF IsIn(UpperLetters, c) THEN LowerLetters[IndexIn(UpperLetters, c)] ELSE c

\* s.upper()
Upper(s) == [i \in 1..Len(s) |-> UpperChar(s[i])]

\* s.lower()
Lower(s) == [i \in 1..Len(s) |-> LowerChar(s[i])]

\* s.strip()
Strip(s) ==
    LET keep == {i \in 1..Len(s) : s[i] \notin Whitespace}
    IN  IF keep = {} THEN << >>
        ELSE LET lo == CHOOSE i \in keep : \A j \in keep : i <= j
                 hi == CHOOSE i \in keep : \A j \in keep : i >= j
             IN  SubSeq(s, lo, hi)

\* c in s, for a single character c
HasChar(s, c) == \E i \in 1..Len(s) : s[i] = c

\* s.find(c) + 1 for a character c that s holds
FirstChar(s, c) == CHOOSE i \in 1..Len(s) : s[i] = c /\ \A j \in 1..(i-1) : s[j] # c

\* sub in s
Contains(s, sub) ==
    \E i \in 1..(Len(s) - Len(sub) + 1) : \A j \in 1..Len(sub) : s[i + j - 1] = sub[j]

\* s.split(c): every piece between occurrences of c, empty ones included
RECURSIVE Split(_, _)
Split(s, c) ==
    IF ~HasChar(s, c) THEN <<s>>
    ELSE LET i == FirstChar(s, c)
         IN  <<SubSeq(s, 1, i - 1)>> \o Split(SubSeq(s, i + 1, Len(s)), c)

\* s[:n]
Take(s, n) == SubSeq(s, 1, IF n < Len(s) THEN n ELSE Len(s))

\* the value of a string of decimal digits
RECURSIVE DigitsValue(_)
DigitsValue(s) ==
    IF s = << >> THEN 0
    ELSE 10 * DigitsValue(SubSeq(s, 1, Len(s) - 1)) + (Ord(s[Len(s)]) - 48)

\* int(s): <<n>>, or None where Python raises ValueError
PyInt(s) ==
    LET t == Strip(s)
        signed == t # << >> /\ t[1] \in {"+", "-"}
        body == IF signed THEN Tail(t) ELSE t
    IN  IF body # << >> /\ \A i \in 1..Len(body) : IsIn(Digits, body[i])
        THEN <<(IF signed /\ t[1] = "-" THEN -1 ELSE 1) * DigitsValue(body)>>
        ELSE None

\* a dict with d[k] = v set
DictSet(d, k, v) == [x \in (DOMAIN d) \cup {k} |-> IF x = k THEN v ELSE d[x]]

RECURSIVE Concat(_)
Concat(ss) == IF ss = << >> THEN << >> ELSE Head(ss) \o Concat(Tail(ss))

\* every sequence over S of at most n elements
SeqsUpTo(S, n) == UNION {[1..k -> S] : k \in 0..n}

-----------------------------------------------------------------------------
(* ADIF field names. *)

EOR == <<"E","O","R">>
CALL == <<"C","A","L","L">>
BAND == <<"B","A","N","D">>
MODE == <<"M","O","D","E">>
GRIDSQUARE == <<"G","R","I","D","S","Q","U","A","R","E">>
QSO_DATE == <<"Q","S","O","_","D","A","T","E">>

-----------------------------------------------------------------------------
(* parse_adif *)

\* tag_part of part.split('>', 1)
TagPart(part) == SubSeq(part, 1, FirstChar(part, ">") - 1)

\* rest of part.split('>', 1)
Rest(part) == SubSeq(part, FirstChar(part, ">") + 1, Len(part))

\* the part is skipped before a tag is read (the two continue statements)
SkipsPart(part) == Strip(part) = << >> \/ ~HasChar(part, ">")

\* field_name = tag_info[0].upper().strip()
FieldName(part) == Strip(Upper(Split(TagPart(part), ":")[1]))

\* field_length: int(tag_info[1]) when the tag has a second piece that parses
FieldLength(part) ==
    LET tag_info == Split(TagPart(part), ":")
    IN  IF Len(tag_info) >= 2 THEN PyInt(tag_info[2]) ELSE None

\* field_value, stripped
FieldValue(part) ==
    LET field_length == FieldLength(part)
        rest == Rest(part)
    IN  Strip(IF field_length # None /\ field_length[1] > 0
              THEN Take(rest, field_length[1])
              ELSE IF HasChar(rest, "<") THEN Split(rest, "<")[1] ELSE rest)

ParseBegin ==
    /\ pc = "parse"
    /\ parts' = Split(adif_data[1], "<")
    /\ part_idx' = 1
    /\ current_record' = << >>
    /\ records' = << >>
    /\ pc' = "parse_loop"
    /\ UNCHANGED <<api_key, response, network_calls, adif_data, df, columns,
                   grid, latlon, file_written, exit_code>>

\* one iteration of "for part in parts", on the loop's two variables
ParseStep(cur, recs, part) ==
    IF SkipsPart(part)
    THEN [current_record |-> cur, records |-> recs]
    ELSE IF FieldName(part) = EOR
    THEN IF cur # << >>
         THEN [current_record |-> << >>, records |-> Append(recs, cur)]
         ELSE [current_record |-> cur, records |-> recs]
    ELSE IF FieldValue(part) # << >>
    THEN [current_record |-> DictSet(cur, FieldName(part), FieldValue(part)),
          records |-> recs]
    ELSE [current_record |-> cur, records |-> recs]

\* "if current_record: records.append(current_record)" after the loop
LastRecord(cur, recs) == IF cur # << >> THEN Append(recs, cur) ELSE recs

ParsePart ==
    /\ pc = "parse_loop"
    /\ part_idx <= Len(parts)
    /\ LET st == ParseStep(current_record, records, parts[part_idx])
       IN  /\ current_record' = st.current_record
           /\ records' = st.records
    /\ part_idx' = part_idx + 1
    /\ UNCHANGED <<pc, api_key, response, network_calls, adif_data, parts, df,
                   columns, grid, latlon, file_written, exit_code>>

\* the records parse_adif(text) returns: the loop run to its end
RECURSIVE ParseFrom(_, _, _, _)
ParseFrom(ps, i, cur, recs) ==
    IF i > Len(ps) THEN LastRecord(cur, recs)
    ELSE LET st == ParseStep(cur, recs, ps[i])
         IN  ParseFrom(ps, i + 1, st.current_record, st.records)

parse_adif(text) == ParseFrom(Split(text, "<"), 1, << >>, << >>)

\* the rows of pd.DataFrame(records): the parsed dict and the derived columns
Row(rec) ==
    [rec |-> rec, lat |-> None, lon |-> None, lat_adjusted |-> None,
     lon_adjusted |-> None, date_formatted |-> None]

\* after the loop: the last record, then the DataFrame
ParseEnd ==
    /\ pc = "parse_loop"
    /\ part_idx > Len(parts)
    /\ LET all == LastRecord(current_record, records)
       IN  /\ records' = all
           /\ df' = [i \in 1..Len(all) |-> Row(all[i])]
           /\ columns' = UNION {DOMAIN all[i] : i \in 1..Len(all)}
    /\ pc' = "parsed"
    /\ UNCHANGED <<api_key, response, network_calls, adif_data, parts, part_idx,
                   current_record, grid, latlon, file_written, exit_code>>

-----------------------------------------------------------------------------
(* The decoder alone, on texts built from ADIF fragments. *)

ParseTokens ==
    { <<"<","C","A","L","L",":","2",">">>,
      <<"<","c","a","l","l",":","2",">">>,
      <<"<","B","A","N","D",":","2",">">>,
      <<"<","C","A","L","L",":","x",">">>,
      <<"<","C","A","L","L",">">>,
      <<"<","C","A","L","L",":","0",">">>,
      <<"<","E","O","R",">">>,
      <<"<","e","o","r",">">>,
      <<"a","b">>,
      <<"A","B">>,
      <<"a"," ">>,
      <<"<">>,
      <<"2","0","M">> }

InitParse ==
    /\ pc = "parse"
    /\ adif_data \in {<<Concat(ts)>> : ts \in SeqsUpTo(ParseTokens, MaxParseTokens)}
    /\ api_key = None
    /\ response = None
    /\ network_calls = 0
    /\ parts = << >>
    /\ part_idx = 0
    /\ current_record = << >>
    /\ records = << >>
    /\ df = << >>
    /\ columns = {}
    /\ grid = None
    /\ latlon = None
    /\ file_written = FALSE
    /\ exit_code = None

NextParse == ParseBegin \/ ParsePart \/ ParseEnd

SpecParse == InitParse /\ [][NextParse]_vars

-----------------------------------------------------------------------------
(* Claims about parse_adif, under SpecParse. *)

\* C1: every record parse_adif returns has a non-empty CALL field; a chunk
\* with other fields but no CALL, such as "<BAND:2>ab<EOR>", gives no record.
C1_EveryRecordHasCall ==
    pc = "parsed" =>
        \A i \in 1..Len(records) :
            CALL \in DOMAIN records[i] /\ records[i][CALL] # << >>

\* the text decodes to records that hold nothing but a callsign
OnlyCalls(recs) == \A i \in 1..Len(recs) : DOMAIN recs[i] \subseteq {CALL}

\* C2: parse_adif is insensitive to the letter case of tag names, of the
\* end-of-record marker and of the callsign value: a text and the same text
\* in upper case decode to the same records, and every CALL value is stored
\* in upper case.
C2_CaseInsensitive ==
    (pc = "parsed" /\ OnlyCalls(records)
                   /\ OnlyCalls(parse_adif(Upper(adif_data[1])))) =>
        /\ records = parse_adif(Upper(adif_data[1]))
        /\ \A i \in 1..Len(records) :
               CALL \in DOMAIN records[i] =>
                   records[i][CALL] = Upper(records[i][CALL])

\* index in the text of the first character of parts[i]
RECURSIVE PartStart(_, _)
PartStart(ps, i) == IF i = 1 THEN 1 ELSE PartStart(ps, i - 1) + Len(ps[i - 1]) + 1

\* the n characters of the text that follow the closing ">" of the tag of parts[i]
AfterTag(text, ps, i, n) ==
    LET gt == PartStart(ps, i) + FirstChar(ps[i], ">") - 1
    IN  SubSeq(text, gt + 1, gt + n)

\* the characters after the tag of parts[i] up to the next "<" or the end
UpToNextTag(text, ps, i) == Rest(ps[i])

\* C3: for every tag with a parsable LENGTH the stored value is the LENGTH
\* characters that follow the tag's ">" in the input (trimmed), also when they
\* hold a "<"; only without a parsable LENGTH is it the text up to the next "<".
C3_ValueIsLengthChars ==
    [][ (pc = "parse_loop" /\ part_idx <= Len(parts)
         /\ ~SkipsPart(parts[part_idx]) /\ FieldName(parts[part_idx]) # EOR) =>
        LET part == parts[part_idx]
            len == FieldLength(part)
            gt == PartStart(parts, part_idx) + FirstChar(part, ">") - 1
            want == IF len # None
                    THEN Strip(AfterTag(adif_data[1], parts, part_idx, len[1]))
                    ELSE Strip(UpToNextTag(adif_data[1], parts, part_idx))
        IN  (len # None => len[1] >= 0 /\ gt + len[1] <= Len(adif_data[1])) /\ want # << >> =>
                /\ FieldName(part) \in DOMAIN current_record'
                /\ current_record'[FieldName(part)] = want ]_vars

-----------------------------------------------------------------------------
(* maidenhead_to_latlon.  Coordinates are exact, in units of 1/480 degree,  *)
(* the common denominator of the steps 2/24, 1/24, 2/240, 1/240 and 0.5.   *)

UnitsPerDegree == 480

Unresolved == [lat |-> None, lon |-> None]

\* the body of the try block, on grid = str(grid).upper().strip(); None
\* where an IndexError or a ValueError is caught
LatLonOf(g) ==
    LET n == Len(g)
        sq2 == IF n >= 4 THEN PyInt(<<g[3]>>) ELSE <<0>>
        sq3 == IF n >= 4 THEN PyInt(<<g[4]>>) ELSE <<0>>
        ex6 == IF n >= 8 THEN PyInt(<<g[7]>>) ELSE <<0>>
        ex7 == IF n >= 8 THEN PyInt(<<g[8]>>) ELSE <<0>>
    IN  IF n < 2 \/ sq2 = None \/ sq3 = None \/ ex6 = None \/ ex7 = None
        THEN Unresolved
        ELSE [lon |-> <<  ((Ord(g[1]) - 65) * 20 - 180) * UnitsPerDegree
                        + (IF n >= 4 THEN sq2[1] * 2 * UnitsPerDegree ELSE 0)
                        + (IF n >= 6 THEN (Ord(g[5]) - 65) * 40 ELSE 0)
                        + (IF n >= 8 THEN ex6[1] * 4 ELSE 0)
                        + (IF n >= 4 THEN UnitsPerDegree ELSE 0) >>,
              lat |-> <<  ((Ord(g[2]) - 65) * 10 - 90) * UnitsPerDegree
                        + (IF n >= 4 THEN sq3[1] * UnitsPerDegree ELSE 0)
                        + (IF n >= 6 THEN (Ord(g[6]) - 65) * 20 ELSE 0)
                        + (IF n >= 8 THEN ex7[1] * 2 ELSE 0)
                        + (IF n >= 4 THEN UnitsPerDegree \div 2 ELSE 0) >>]

\* maidenhead_to_latlon(grid) for a str
maidenhead_to_latlon(g) ==
    IF g = << >> \/ Len(g) < 4 THEN Unresolved
    ELSE LatLonOf(Strip(Upper(g)))

Resolve ==
    /\ pc = "resolve"
    /\ latlon' = maidenhead_to_latlon(grid[1])
    /\ pc' = "resolved"
    /\ UNCHANGED <<api_key, response, network_calls, adif_data, parts, part_idx,
                   current_record, records, df, columns, grid, file_written,
                   exit_code>>

GridChars == {"F", "n", "2", "-", " "}

InitGrid ==
    /\ pc = "resolve"
    /\ grid \in {<<g>> : g \in SeqsUpTo(GridChars, MaxGridLen)}
    /\ latlon = None
    /\ api_key = None
    /\ response = None
    /\ network_calls = 0
    /\ adif_data = None
    /\ parts = << >>
    /\ part_idx = 0
    /\ current_record = << >>
    /\ records = << >>
    /\ df = << >>
    /\ columns = {}
    /\ file_written = FALSE
    /\ exit_code = None

NextGrid == Resolve

SpecGrid == InitGrid /\ [][NextGrid]_vars

-----------------------------------------------------------------------------
(* Claims about maidenhead_to_latlon, under SpecGrid. *)

IsLetterUpTo(c, last) == Ord(UpperChar(c)) >= 65 /\ Ord(UpperChar(c)) <= Ord(last)

IsDigit(c) == IsIn(Digits, c)

\* a well-formed locator of 4 or of 6 characters
ValidLocator(g) ==
    /\ Len(g) \in {4, 6}
    /\ IsLetterUpTo(g[1], "R") /\ IsLetterUpTo(g[2], "R")
    /\ IsDigit(g[3]) /\ IsDigit(g[4])
    /\ Len(g) = 6 => IsLetterUpTo(g[5], "X") /\ IsLetterUpTo(g[6], "X")

\* the centre of the smallest cell the locator names, in 1/480 degree
CellCentre(g) ==
    LET u == Upper(g)
        lon0 == ((Ord(u[1]) - 65) * 20 - 180 + (Ord(u[3]) - 48) * 2) * UnitsPerDegree
        lat0 == ((Ord(u[2]) - 65) * 10 - 90 + (Ord(u[4]) - 48)) * UnitsPerDegree
    IN  IF Len(g) = 4
        THEN [lon |-> <<lon0 + UnitsPerDegree>>,
              lat |-> <<lat0 + UnitsPerDegree \div 2>>]
        ELSE [lon |-> <<lon0 + (Ord(u[5]) - 65) * 40 + 20>>,
              lat |-> <<lat0 + (Ord(u[6]) - 65) * 20 + 10>>]

\* C4: for every valid locator of 4 or 6 characters the result is the centre
\* of the smallest resolved cell: the square for 4 characters, the subsquare
\* (+1/24 and +1/48 degree past its corner) for 6 characters.
C4_CellCentre ==
    (pc = "resolved" /\ ValidLocator(grid[1])) => latlon = CellCentre(grid[1])

\* a letter position holds no letter, or a digit position no digit
BadCharacter(g) ==
    \E i \in 1..Len(g) :
        \/ i \in {1, 2, 5, 6} /\ ~IsLetterUpTo(g[i], "Z")
        \/ i \in {3, 4, 7, 8} /\ ~IsDigit(g[i])

\* C5: a locator shorter than 4 characters, or with a non-letter at a letter
\* position or a non-digit at a digit position, is unresolved (None, None).
C5_InvalidUnresolved ==
    (pc = "resolved" /\ (Len(grid[1]) < 4 \/ BadCharacter(grid[1]))) =>
        latlon = Unresolved

-----------------------------------------------------------------------------
(* add_jitter_to_duplicates.  A display coordinate is <<c, off>>: the true  *)
(* coordinate c (1/480 degree) plus an offset in units of 1e-9 degree; the  *)
(* float sum differs from c exactly when off # 0, every offset below being  *)
(* far above the spacing of doubles near c.                                 *)

\* round(1e9 * 0.15 * sin(2 * 3.14159 * i / count)) at [count][i]
RadiusSin ==
    << << >>,
       <<398>>,
       <<129903943, -129903545>>,
       <<150000000, 398, -150000000>>,
       <<142658428, 88168045, -88167401, -142658674>>,
       <<129903744, 129903943, 398, -129903545, -129904142>> >>

\* round(1e9 * 0.15 * cos(2 * 3.14159 * i / count)) at [count][i]
RadiusCos ==
    << << >>,
       <<-150000000>>,
       <<-74999770, -75000460>>,
       <<199, -150000000, -597>>,
       <<46352701, -121352362, -121352830, 46351943>>,
       <<75000115, -74999770, -150000000, -75000460, 74999425>> >>

\* a column copied into its display column
Display(c) == IF c = None THEN None ELSE <<c[1], 0>>

\* the rows of the group of row k: same lat and lon, neither missing
GroupOf(d, k) ==
    IF d[k].lat = None \/ d[k].lon = None THEN {}
    ELSE {j \in 1..Len(d) : d[j].lat = d[k].lat /\ d[j].lon = d[k].lon}

\* the jitter with "if i > 0" lost: the first row of a group is moved as well,
\* by radius * sin(0) and radius * cos(0)
add_jitter_to_all(d) ==
    [k \in 1..Len(d) |->
        LET count == Cardinality(GroupOf(d, k))
            i == Cardinality({j \in GroupOf(d, k) : j < k})
        IN  IF count > 1
            THEN [d[k] EXCEPT
                    !.lat_adjusted = <<d[k].lat[1], IF i > 0 THEN RadiusSin[count][i] ELSE 0>>,
                    !.lon_adjusted = <<d[k].lon[1], IF i > 0 THEN RadiusCos[count][i]
                                                    ELSE 150000000>>]
            ELSE [d[k] EXCEPT !.lat_adjusted = Display(d[k].lat),
                              !.lon_adjusted = Display(d[k].lon)]]

\* add_jitter_to_duplicates(df)
add_jitter_to_duplicates(d) ==
    [k \in 1..Len(d) |->
        LET count == Cardinality(GroupOf(d, k))
            i == Cardinality({j \in GroupOf(d, k) : j < k})
        IN  IF count > 1 /\ i > 0
            THEN [d[k] EXCEPT !.lat_adjusted = <<d[k].lat[1], RadiusSin[count][i]>>,
                              !.lon_adjusted = <<d[k].lon[1], RadiusCos[count][i]>>]
            ELSE [d[k] EXCEPT !.lat_adjusted = Display(d[k].lat),
                              !.lon_adjusted = Display(d[k].lon)]]

Jitter ==
    /\ pc = "jitter"
    /\ df' = add_jitter_to_duplicates(df)
    /\ pc' = "jittered"
    /\ UNCHANGED <<api_key, response, network_calls, adif_data, parts, part_idx,
                   current_record, records, columns, grid, latlon, file_written,
                   exit_code>>

JitterGrids ==
    { <<"F","N","2","0">>, <<"F","N","2","1">>, <<"H","N","2","0">> }

\* a row of the frame main() hands on: its locator and what it resolved to
ResolvedRow(g) ==
    [Row(DictSet(<< >>, GRIDSQUARE, g)) EXCEPT
        !.lat = maidenhead_to_latlon(g).lat,
        !.lon = maidenhead_to_latlon(g).lon]

InitJitter ==
    /\ pc = "jitter"
    /\ df \in {[k \in DOMAIN gs |-> ResolvedRow(gs[k])] :
                  gs \in SeqsUpTo(JitterGrids, MaxRows)}
    /\ columns = IF df = << >> THEN {} ELSE {GRIDSQUARE}
    /\ grid = None
    /\ latlon = None
    /\ api_key = None
    /\ response = None
    /\ network_calls = 0
    /\ adif_data = None
    /\ parts = << >>
    /\ part_idx = 0
    /\ current_record = << >>
    /\ records = << >>
    /\ file_written = FALSE
    /\ exit_code = None

NextJitter == Jitter

SpecJitter == InitJitter /\ [][NextJitter]_vars

-----------------------------------------------------------------------------
(* Claims about add_jitter_to_duplicates, under SpecJitter. *)

\* row k is the first row, in record order, with its coordinates
FirstOfGroup(d, k) == \A j \in 1..(k - 1) : d[j].lat # d[k].lat \/ d[j].lon # d[k].lon

\* the display pair of the row is its true pair
DisplayIsTrue(r) == r.lat_adjusted = Display(r.lat) /\ r.lon_adjusted = Display(r.lon)

\* C9: the jitter leaves lat and lon (and the parsed fields) of every row
\* unchanged and writes only the display pair, which equals the true pair
\* for the first row of each coordinate and differs from it for every later
\* row of a group of more than one.
C9_JitterKeepsTrueCoordinates ==
    [][ pc = "jitter" =>
        /\ Len(df') = Len(df)
        /\ \A k \in 1..Len(df) :
              /\ df'[k].lat = df[k].lat
              /\ df'[k].lon = df[k].lon
              /\ df'[k].rec = df[k].rec
              /\ df'[k].date_formatted = df[k].date_formatted
              /\ df'[k].lat_adjusted[1] = df[k].lat[1]
              /\ df'[k].lon_adjusted[1] = df[k].lon[1]
              /\ FirstOfGroup(df, k) <=> DisplayIsTrue(df'[k]) ]_vars

\* a jittered frame with a group of three rows and a row that stands alone
C9_Witness ==
    /\ pc = "jittered"
    /\ \E k \in 1..Len(df) : Cardinality(GroupOf(df, k)) = 3
    /\ \E k \in 1..Len(df) :
          Cardinality(GroupOf(df, k)) = 1 /\ DisplayIsTrue(df[k])
    /\ \E k \in 1..Len(df) : ~DisplayIsTrue(df[k])

-----------------------------------------------------------------------------
(* fetch_logbook_adif *)

RESULT_FAIL == <<"R","E","S","U","L","T","=","F","A","I","L">>
INVALID_API_KEY == <<"i","n","v","a","l","i","d"," ","a","p","i"," ","k","e","y">>
EOR_UPPER == <<"<","E","O","R",">">>
EOR_LOWER == <<"<","e","o","r",">">>

\* the test of line 71 for "there is no ADIF data"
NoAdifData(content) ==
    ~Contains(content, EOR_UPPER) /\ ~Contains(Upper(content), EOR_LOWER)

\* what fetch_logbook_adif returns for an answer of requests.get: <<content>>,
\* or None after an exception, a status other than 200, a failure marker or
\* a body without records
fetch_logbook_adif(resp) ==
    IF resp.kind # "http" THEN None
    ELSE IF resp.status_code # 200 THEN None
    ELSE IF Contains(resp.text, RESULT_FAIL) THEN None
    ELSE IF Contains(Lower(resp.text), INVALID_API_KEY) THEN None
    ELSE IF NoAdifData(resp.text) THEN None
    ELSE <<resp.text>>

-----------------------------------------------------------------------------
(* main(): process the frame, render, write. *)

NAN_UPPER == <<"N","A","N">>

\* normalize_band(band), band a str or NaN (None)
normalize_band(band) ==
    LET b == IF band = None THEN NAN_UPPER ELSE Upper(band[1])
    IN  IF b = <<"1","5","M">> THEN <<"1","5","m">>
        ELSE IF b = <<"7","0","C","M">> THEN <<"7","0","c","m">>
        ELSE b

\* df[col] of a row: <<value>>, or None (NaN) where the record has no such field
Cell(r, col) == IF col \in DOMAIN r.rec THEN <<r.rec[col]>> ELSE None

\* df['BAND'].apply(normalize_band) when the frame has the column
NormalizeBands(d, cols) ==
    IF BAND \in cols
    THEN [k \in 1..Len(d) |->
            [d[k] EXCEPT !.rec = DictSet(d[k].rec, BAND, normalize_band(Cell(d[k], BAND)))]]
    ELSE d

\* maidenhead_to_latlon raises on a NaN cell: len() of a float, outside its try
ResolveRaises(d, cols) ==
    GRIDSQUARE \in cols /\ \E k \in 1..Len(d) : Cell(d[k], GRIDSQUARE) = None

\* lat and lon of every row (None for all when there is no GRIDSQUARE column)
WithLatLon(d, cols) ==
    [k \in 1..Len(d) |->
        IF GRIDSQUARE \in cols /\ Cell(d[k], GRIDSQUARE) # None
        THEN [d[k] EXCEPT !.lat = maidenhead_to_latlon(d[k].rec[GRIDSQUARE]).lat,
                          !.lon = maidenhead_to_latlon(d[k].rec[GRIDSQUARE]).lon]
        ELSE d[k]]

HasLatLon(r) == r.lat # None /\ r.lon # None

\* df.dropna(subset=['lat', 'lon']), done only when there is a GRIDSQUARE column
DropNa(d, cols) == IF GRIDSQUARE \in cols THEN SelectSeq(d, HasLatLon) ELSE d

DaysIn(y, m) ==
    IF m = 2 THEN (IF y % 4 = 0 /\ (y % 100 # 0 \/ y % 400 = 0) THEN 29 ELSE 28)
    ELSE IF m \in {4, 6, 9, 11} THEN 30 ELSE 31

\* pd.to_datetime(v, format='%Y%m%d', errors='coerce') is a date, not NaT
\* (years outside the range of a pandas Timestamp are not told apart)
IsDate(v) ==
    /\ Len(v) = 8
    /\ \A i \in 1..8 : IsIn(Digits, v[i])
    /\ DigitsValue(SubSeq(v, 5, 6)) \in 1..12
    /\ DigitsValue(SubSeq(v, 7, 8)) \in
           1..DaysIn(DigitsValue(SubSeq(v, 1, 4)), DigitsValue(SubSeq(v, 5, 6)))

NOT_AVAILABLE == <<"N","/","A">>

\* df['date_formatted']: "dd.mm" or NaN per row, 'N/A' without a QSO_DATE column
WithDates(d, cols) ==
    [k \in 1..Len(d) |->
        [d[k] EXCEPT !.date_formatted =
            IF QSO_DATE \notin cols THEN <<NOT_AVAILABLE>>
            ELSE IF Cell(d[k], QSO_DATE) # None /\ IsDate(d[k].rec[QSO_DATE])
            THEN <<SubSeq(d[k].rec[QSO_DATE], 7, 8) \o <<".">>
                    \o SubSeq(d[k].rec[QSO_DATE], 5, 6)>>
            ELSE None]]

\* main() without its test for an empty frame
NothingToRenderUnchecked(d) == FALSE

\* "if len(df) == 0" of line 482
NothingToRender(d) == Len(d) = 0

\* sorted(values) raises TypeError: NaN beside a str
SortRaises(values) == None \in values /\ values # {None}

\* generate_html_map raises after the jitter: float(None) of a display
\* coordinate, a missing BAND or MODE column, or an unsortable filter list
RenderRaises(d, cols) ==
    \/ \E k \in 1..Len(d) : d[k].lat_adjusted = None \/ d[k].lon_adjusted = None
    \/ BAND \notin cols
    \/ MODE \notin cols
    \/ SortRaises({Cell(d[k], BAND) : k \in 1..Len(d)})
    \/ SortRaises({Cell(d[k], MODE) : k \in 1..Len(d)})
    \/ SortRaises({d[k].date_formatted : k \in 1..Len(d)})

\* the module-level check of lines 15-20, run before main()
CheckKey ==
    /\ pc = "start"
    /\ IF api_key = None \/ api_key[1] = << >>
       THEN pc' = "exited" /\ exit_code' = <<1>>
       ELSE pc' = "fetch" /\ UNCHANGED exit_code
    /\ UNCHANGED <<api_key, response, network_calls, adif_data, parts, part_idx,
                   current_record, records, df, columns, grid, latlon,
                   file_written>>

\* a record with every field the map needs, and a locator that resolves
RecordFN20 == <<"<","C","A","L","L",":","2",">","A","B","<","B","A","N","D",":","3",">","2","0","M","<","M","O","D","E",":","2",">","C","W","<","G","R","I","D","S","Q","U","A","R","E",":","4",">","F","N","2","0">>
\* a record without a locator
RecordNoGrid == <<"<","C","A","L","L",":","2",">","C","D","<","B","A","N","D",":","3",">","2","0","M","<","M","O","D","E",":","2",">","C","W">>
\* a record whose locator does not resolve
RecordBadGrid == <<"<","C","A","L","L",":","2",">","E","F","<","B","A","N","D",":","3",">","1","5","M","<","M","O","D","E",":","2",">","C","W","<","G","R","I","D","S","Q","U","A","R","E",":","4",">","J","O","A","B">>
\* a record of a locator alone
RecordGridOnly == <<"<","G","R","I","D","S","Q","U","A","R","E",":","4",">","F","N","2","0">>
\* a date, for the record it follows
FieldDate == <<"<","Q","S","O","_","D","A","T","E",":","8",">","2","0","2","4","0","1","3","1">>

RunTokens ==
    { RecordFN20, RecordNoGrid, RecordBadGrid, RecordGridOnly, FieldDate,
      EOR_UPPER, EOR_LOWER, RESULT_FAIL }

ErrorTexts == { << >>, <<"I","n","v","a","l","i","d"," ","A","P","I"," ","K","e","y">> }

\* what requests.get may answer: an exception, an error status, a body
Responses ==
    {[kind |-> "timeout", status_code |-> 0, text |-> << >>]}
    \cup {[kind |-> "http", status_code |-> c, text |-> t] :
              c \in {403, 500}, t \in ErrorTexts}
    \cup {[kind |-> "http", status_code |-> 200, text |-> t] :
              t \in ErrorTexts \cup {Concat(ts) : ts \in SeqsUpTo(RunTokens, MaxRunTokens)}}

\* main(), step 1: fetch_logbook_adif() and "if not adif_data"
Fetch ==
    /\ pc = "fetch"
    /\ \E r \in Responses :
          /\ response' = <<r>>
          /\ adif_data' = fetch_logbook_adif(r)
    /\ network_calls' = network_calls + 1
    /\ IF adif_data' = None \/ adif_data'[1] = << >>
       THEN pc' = "exited" /\ exit_code' = <<1>>
       ELSE pc' = "parse" /\ UNCHANGED exit_code
    /\ UNCHANGED <<api_key, parts, part_idx, current_record, records, df,
                   columns, grid, latlon, file_written>>

\* main(), step 2: "if df.empty" after parse_adif
CheckParsed ==
    /\ pc = "parsed"
    /\ IF df = << >>
       THEN pc' = "exited" /\ exit_code' = <<0>>
       ELSE pc' = "process" /\ UNCHANGED exit_code
    /\ UNCHANGED <<api_key, response, network_calls, adif_data, parts, part_idx,
                   current_record, records, df, columns, grid, latlon,
                   file_written>>

\* main(), step 3: bands, coordinates, dates, "if len(df) == 0"; an uncaught
\* exception ends the process with status 1
Process ==
    /\ pc = "process"
    /\ LET banded == NormalizeBands(df, columns)
           done == WithDates(DropNa(WithLatLon(banded, columns), columns), columns)
       IN  IF ResolveRaises(banded, columns)
           THEN df' = banded /\ pc' = "crashed" /\ exit_code' = <<1>>
           ELSE /\ df' = done
                /\ IF NothingToRender(done)
                   THEN pc' = "exited" /\ exit_code' = <<1>>
                   ELSE pc' = "render" /\ UNCHANGED exit_code
    /\ UNCHANGED <<api_key, response, network_calls, adif_data, parts, part_idx,
                   current_record, records, columns, grid, latlon, file_written>>

\* main(), step 4: generate_html_map(df)
Render ==
    /\ pc = "render"
    /\ df' = add_jitter_to_duplicates(df)
    /\ IF RenderRaises(df', columns)
       THEN pc' = "crashed" /\ exit_code' = <<1>>
       ELSE pc' = "write" /\ UNCHANGED exit_code
    /\ UNCHANGED <<api_key, response, network_calls, adif_data, parts, part_idx,
                   current_record, records, columns, grid, latlon, file_written>>

\* main(): output/index.html is written, the statistics printed, status 0
Write ==
    /\ pc = "write"
    /\ file_written' = TRUE
    /\ pc' = "done"
    /\ exit_code' = <<0>>
    /\ UNCHANGED <<api_key, response, network_calls, adif_data, parts, part_idx,
                   current_record, records, df, columns, grid, latlon>>

ApiKeys == { None, << << >> >>, << <<"k","e","y","1">> >> }

Init ==
    /\ pc = "start"
    /\ api_key \in ApiKeys
    /\ response = None
    /\ network_calls = 0
    /\ adif_data = None
    /\ parts = << >>
    /\ part_idx = 0
    /\ current_record = << >>
    /\ records = << >>
    /\ df = << >>
    /\ columns = {}
    /\ grid = None
    /\ latlon = None
    /\ file_written = FALSE
    /\ exit_code = None

Next ==
    \/ CheckKey
    \/ Fetch
    \/ ParseBegin
    \/ ParsePart
    \/ ParseEnd
    \/ CheckParsed
    \/ Process
    \/ Render
    \/ Write

Spec == Init /\ [][Next]_vars

-----------------------------------------------------------------------------
(* Claims about the run, under Spec. *)

\* the process has ended
Terminal == pc \in {"done", "exited", "crashed"}

\* the record carries a locator that maidenhead_to_latlon resolves
Resolves(rec) ==
    GRIDSQUARE \in DOMAIN rec /\ maidenhead_to_latlon(rec[GRIDSQUARE]) # Unresolved

\* the records of the parsed log whose locator resolves, in order
ResolvedRecords == SelectSeq(records, Resolves)

\* apart from the locator every record has what the map reads, alike for all
OnlyLocatorsDiffer ==
    \A i \in 1..Len(records) :
        {CALL, BAND, MODE} \subseteq DOMAIN records[i] /\ QSO_DATE \notin DOMAIN records[i]

\* C6: when the parsed log has a record with a valid locator, the records
\* with a missing or unresolvable locator are left out and the run still
\* completes, rendering every record that did resolve.
C6_BadLocatorOnlyDropsRecord ==
    (/\ Terminal
     /\ OnlyLocatorsDiffer
     /\ \E i \in 1..Len(records) :
           GRIDSQUARE \in DOMAIN records[i] /\ ValidLocator(records[i][GRIDSQUARE])) =>
        /\ pc = "done"
        /\ file_written
        /\ Len(df) = Len(ResolvedRecords)
        /\ \A k \in 1..Len(df) :
              /\ HasLatLon(df[k])
              /\ Cell(df[k], CALL) = <<ResolvedRecords[k][CALL]>>
              /\ Cell(df[k], GRIDSQUARE) = <<ResolvedRecords[k][GRIDSQUARE]>>

FetchFailed == network_calls >= 1 /\ adif_data = None

ZeroParsed == adif_data # None /\ records = << >>

ZeroResolved == adif_data # None /\ ResolvedRecords = << >>

\* C7: a run ends with a non-zero status when the fetch failed, when no
\* record was parsed and when no record resolved to coordinates; only a run
\* that wrote the map ends with status 0.
C7_FailuresExitNonZero ==
    Terminal =>
        /\ (FetchFailed \/ ZeroParsed \/ ZeroResolved) => exit_code # <<0>>
        /\ exit_code = <<0>> => file_written

KeyAbsent == api_key = None \/ api_key[1] = << >>

\* C8: output/index.html is written only after the fetch returned data, the
\* decoder gave at least one record and at least one record resolved; without
\* an API key no network call is made; after a failed fetch or with no
\* geolocated record no file is written.
C8_WriteOnlyAfterData ==
    /\ file_written =>
          /\ network_calls = 1
          /\ adif_data # None /\ adif_data[1] # << >>
          /\ Len(records) >= 1
          /\ ResolvedRecords # << >>
          /\ Len(df) >= 1 /\ \A k \in 1..Len(df) : HasLatLon(df[k])
    /\ KeyAbsent => network_calls = 0
    /\ FetchFailed => ~file_written
    /\ (Terminal /\ ResolvedRecords = << >>) => ~file_written

\* a finished run that wrote the map, one record left out of it
C8_Witness ==
    /\ pc = "done"
    /\ file_written
    /\ Len(records) >= 2
    /\ Len(df) < Len(records)

\* C10: fetch_logbook_adif returns the body of every HTTP-200 answer that has
\* no failure marker and holds an end-of-record marker in any letter case.
C10_FetchPassesAnyCaseEor ==
    (/\ response # None
     /\ response[1].kind = "http"
     /\ response[1].status_code = 200
     /\ ~Contains(response[1].text, RESULT_FAIL)
     /\ ~Contains(Lower(response[1].text), INVALID_API_KEY)
     /\ Contains(Upper(response[1].text), EOR_UPPER)) =>
        adif_data = <<response[1].text>>

=============================================================================
